---- MODULE Spec2Model ----
(***************************************************************************)
(* Model of Analysis_bot.py: the completion client call_chatgpt (retry on  *)
(* rate limit, recursive), the request builders generate_pets,             *)
(* generate_gets and stage4_write_up_pet, and the driver                   *)
(* ipa_analysis_pipeline.                                                  *)
(*                                                                         *)
(* Texts are sequences of segments (whitespace, prose, one JSON document,  *)
(* malformed JSON); a JSON document is a record of the shape the code      *)
(* tests (top-level type, the key it carries, the type of that key's       *)
(* value, the items of the value).                                         *)
(***************************************************************************)
EXTENDS Integers, Sequences, FiniteSets, TLC

\* ---------------------------------------------------------------- bounds
\* Largest number of uploaded transcripts in one run.
MaxTranscripts == 2

\* Largest retry budget a direct call of call_chatgpt is given (SpecClient).
MaxRetries == 3

\* ------------------------------------------------------ program constants
\* retries=3, the default of call_chatgpt; every caller uses the default.
DefaultRetries == 3

\* time.sleep(60)
BackoffSeconds == 60

PetKey == "personal_experiential_themes"

GetKey == "group_experiential_themes"

\* ------------------------------------------------------------------ JSON
\* A theme record of a JSON list: a dict (pet) or a non-dict element.
\* participant_id is "none" while the dict has no such key.
Theme(title, complete) ==
    [kind |-> "dict", title |-> title, complete |-> complete, participant_id |-> "none"]

StrItem == [kind |-> "str", title |-> "none", complete |-> FALSE, participant_id |-> "none"]

\* A JSON document: top is the top-level type; for a dict, key is the one key
\* of interest it carries ("none": it carries neither), val the type of that
\* key's value and items the elements of the value when it is a list.
Doc(top, key, val, items) == [top |-> top, key |-> key, val |-> val, items |-> items]

NoDoc == Doc("none", "none", "none", <<>>)

\* {} : the default the pipeline substitutes for a missing GET / write-up.
EmptyDict == Doc("dict", "none", "none", <<>>)

PetDocs ==
    { Doc("dict", PetKey, "list", <<Theme("T1", TRUE)>>),
      Doc("dict", PetKey, "list", <<Theme("T1", TRUE), Theme("T2", TRUE)>>),
      Doc("dict", PetKey, "list", <<Theme("T1", FALSE)>>),
      Doc("dict", PetKey, "list", <<>>),
      Doc("dict", PetKey, "list", <<StrItem>>),
      Doc("dict", PetKey, "null", <<>>) }

GetDocs ==
    { Doc("dict", GetKey, "list", <<Theme("G1", TRUE)>>),
      Doc("dict", GetKey, "list", <<StrItem>>) }

OtherDocs ==
    { EmptyDict,
      Doc("list", "none", "none", <<>>),
      Doc("str", "none", "none", <<>>) }

Docs == PetDocs \cup GetDocs \cup OtherDocs

\* ------------------------------------------------------------------ text
Seg(s, d) == [seg |-> s, doc |-> d]

WS == Seg("ws", NoDoc)

PROSE == Seg("prose", NoDoc)

\* JSON-looking text that does not parse (unbalanced braces, single quotes...)
JUNK == Seg("junk", NoDoc)

GoodPet == Doc("dict", PetKey, "list", <<Theme("T1", TRUE)>>)

\* The response bodies the provider may return on success.
Bodies ==
    { <<>>, <<WS>>, <<JUNK>> }
    \cup { <<Seg("doc", d)>> : d \in Docs }
    \cup { <<WS, Seg("doc", GoodPet), WS>>,
           <<PROSE, Seg("doc", GoodPet)>>,
           <<Seg("doc", GoodPet), PROSE>> }

RECURSIVE lstrip(_)
lstrip(s) == IF s # <<>> /\ Head(s).seg = "ws" THEN lstrip(Tail(s)) ELSE s

RECURSIVE rstrip(_)
rstrip(s) ==
    IF s # <<>> /\ s[Len(s)].seg = "ws" THEN rstrip(SubSeq(s, 1, Len(s) - 1)) ELSE s

\* str.strip()
strip(s) == rstrip(lstrip(s))

\* json.loads: surrounding whitespace is skipped, then the text must be
\* exactly one JSON document; anything else raises JSONDecodeError.
json_loads(s) ==
    LET t == strip(s)
    IN  IF Len(t) = 1 /\ t[1].seg = "doc"
        THEN [ok |-> TRUE, value |-> t[1].doc]
        ELSE [ok |-> FALSE, value |-> NoDoc]

\* d.get(k, []) on a dict d.
dict_get(d, k) ==
    IF d.key = k THEN [t |-> d.val, items |-> d.items]
    ELSE [t |-> "list", items |-> <<>>]

\* ----------------------------------------------------------------- state
VARIABLES
    transcripts,      \* the uploaded files handed to ipa_analysis_pipeline
    idx,              \* enumerate index of the transcript the loop is at
    participant_ids,
    all_transcripts,
    participant_pets,
    gets,
    write_up,
    analysis,
    rendered,         \* st.markdown(markdown_content) has been shown
    ui,               \* st.error / st.success of the pipeline, in order
    plog,             \* logger records of the pipeline, in order
    pet_returns,      \* history: what generate_pets returned, per participant
    sent,             \* the prompts for which a completion request was issued
    pc,               \* position of the run
    stage,            \* which request the current call_chatgpt serves
    prompt,           \* its prompt
    budget,           \* retries of the outermost call_chatgpt invocation
    retries,          \* retries of the innermost (current) invocation
    attempts,         \* ChatCompletion.create requests issued by this call
    rate_limited,     \* RateLimitError signals received by this call
    waits,            \* time.sleep(60) performed by this call
    slept,            \* seconds slept by this call
    clog,             \* logger records written by this call, in order
    cui,              \* st.warning / st.error shown by this call, in order
    last,             \* outcome of the latest attempt of this call
    ret               \* value the call returned (at pc = "ret")

pipeline_vars ==
    <<transcripts, idx, participant_ids, all_transcripts, participant_pets, gets,
      write_up, analysis, rendered, ui, plog, pet_returns>>

call_vars ==
    <<stage, prompt, budget, retries, attempts, rate_limited, waits, slept, clog,
      cui, last, ret>>

vars == <<pipeline_vars, sent, pc, call_vars>>

\* ---------------------------------------------------------- call_chatgpt
Prompt(st, pid, text, pets, pp, all) ==
    [stage |-> st, participant_id |-> pid, transcript_text |-> text,
     pets |-> pets, participant_pets |-> pp, transcripts |-> all]

Outcome(kind, body) == [kind |-> kind, body |-> body]

\* Off by one: a call with no budget left retries once more.
rate_limit_retry_off_by_one(r) == r >= 0

\* if retries > 0:
rate_limit_retry(r) == r > 0

\* response.choices[0].message.content.strip()
response_text(body) == strip(body)

\* return "" : what every except-branch returns.
failure_value == <<>>

\* ChatCompletion.create is entered: one request goes to the provider.
issue_request ==
    /\ pc = "call"
    /\ attempts' = attempts + 1
    /\ sent' = IF attempts = 0 THEN Append(sent, prompt) ELSE sent

\* The try-branch without its logger.info.
call_chatgpt_success_unlogged(body) ==
    /\ pc = "call"
    /\ attempts' = attempts + 1
    /\ sent' = IF attempts = 0 THEN Append(sent, prompt) ELSE sent
    /\ last' = [kind |-> "ok", body |-> body]
    /\ ret' = strip(body)
    /\ pc' = "ret"
    /\ UNCHANGED <<pipeline_vars, stage, prompt, budget, retries, rate_limited,
                   waits, slept, cui, clog>>

\* try-branch: the request succeeds with content `body`.
call_chatgpt_success(body) ==
    /\ issue_request
    /\ clog' = Append(clog, "info")
    /\ last' = Outcome("ok", body)
    /\ ret' = response_text(body)
    /\ pc' = "ret"
    /\ UNCHANGED <<pipeline_vars, stage, prompt, budget, retries, rate_limited,
                   waits, slept, cui>>

\* The retry without its time.sleep(60).
call_chatgpt_rate_limit_retry_no_sleep ==
    /\ pc = "call"
    /\ attempts' = attempts + 1
    /\ sent' = IF attempts = 0 THEN Append(sent, prompt) ELSE sent
    /\ retries > 0
    /\ rate_limited' = rate_limited + 1
    /\ cui' = Append(cui, "warning")
    /\ clog' = Append(clog, "warning")
    /\ retries' = retries - 1
    /\ last' = [kind |-> "rate", body |-> <<>>]
    /\ UNCHANGED <<pipeline_vars, pc, stage, prompt, budget, ret, waits, slept>>

\* except RateLimitError, retries > 0: warn, sleep 60 s, call again with
\* retries - 1 (the recursive call returns through this frame unchanged).
call_chatgpt_rate_limit_retry ==
    /\ issue_request
    /\ rate_limit_retry(retries)
    /\ rate_limited' = rate_limited + 1
    /\ cui' = Append(cui, "warning")
    /\ clog' = Append(clog, "warning")
    /\ waits' = waits + 1
    /\ slept' = slept + BackoffSeconds
    /\ retries' = retries - 1
    /\ last' = Outcome("rate", <<>>)
    /\ UNCHANGED <<pipeline_vars, pc, stage, prompt, budget, ret>>

\* except RateLimitError, retries = 0: error, return "".
call_chatgpt_rate_limit_exhausted ==
    /\ issue_request
    /\ ~rate_limit_retry(retries)
    /\ rate_limited' = rate_limited + 1
    /\ cui' = Append(cui, "error")
    /\ clog' = Append(clog, "error")
    /\ last' = Outcome("rate", <<>>)
    /\ ret' = failure_value
    /\ pc' = "ret"
    /\ UNCHANGED <<pipeline_vars, stage, prompt, budget, retries, waits, slept>>

\* An OpenAIError handled like a rate limit: wait and call again.
call_chatgpt_openai_error_retried ==
    /\ pc = "call"
    /\ attempts' = attempts + 1
    /\ sent' = IF attempts = 0 THEN Append(sent, prompt) ELSE sent
    /\ cui' = Append(cui, "error")
    /\ clog' = Append(clog, "error")
    /\ last' = [kind |-> "openai", body |-> <<>>]
    /\ IF retries > 0
       THEN /\ waits' = waits + 1
            /\ slept' = slept + 60
            /\ retries' = retries - 1
            /\ UNCHANGED <<pc, ret>>
       ELSE /\ ret' = <<>>
            /\ pc' = "ret"
            /\ UNCHANGED <<waits, slept, retries>>
    /\ UNCHANGED <<pipeline_vars, stage, prompt, budget, rate_limited>>

\* except OpenAIError: error, return "".
call_chatgpt_openai_error ==
    /\ issue_request
    /\ cui' = Append(cui, "error")
    /\ clog' = Append(clog, "error")
    /\ last' = Outcome("openai", <<>>)
    /\ ret' = failure_value
    /\ pc' = "ret"
    /\ UNCHANGED <<pipeline_vars, stage, prompt, budget, retries, rate_limited,
                   waits, slept>>

\* except Exception: error, return "".
call_chatgpt_unexpected_error ==
    /\ issue_request
    /\ cui' = Append(cui, "error")
    /\ clog' = Append(clog, "error")
    /\ last' = Outcome("unexpected", <<>>)
    /\ ret' = failure_value
    /\ pc' = "ret"
    /\ UNCHANGED <<pipeline_vars, stage, prompt, budget, retries, rate_limited,
                   waits, slept>>

\* A caller enters call_chatgpt(prompt, retries = r).
enter_call(st, p, r) ==
    /\ stage' = st
    /\ prompt' = p
    /\ budget' = r
    /\ retries' = r
    /\ attempts' = 0
    /\ rate_limited' = 0
    /\ waits' = 0
    /\ slept' = 0
    /\ clog' = <<>>
    /\ cui' = <<>>
    /\ last' = Outcome("none", <<>>)
    /\ ret' = <<>>
    /\ pc' = "call"

\* -------------------------------------------- call_chatgpt called directly
NoValue == [t |-> "none", items |-> <<>>]

NoAnalysis ==
    [participants |-> <<>>, group_experiential_themes |-> NoValue,
     personal_experiential_themes_writeup |-> NoValue]

InitPipelineIdle ==
    /\ transcripts = <<>>
    /\ idx = 0
    /\ participant_ids = <<>>
    /\ all_transcripts = <<>>
    /\ participant_pets = <<>>
    /\ gets = NoDoc
    /\ write_up = NoDoc
    /\ analysis = NoAnalysis
    /\ rendered = FALSE
    /\ ui = <<>>
    /\ plog = <<>>
    /\ pet_returns = <<>>
    /\ sent = <<>>

InitClient ==
    /\ InitPipelineIdle
    /\ \E r \in 0..MaxRetries :
        /\ stage = "CLIENT"
        /\ prompt = Prompt("CLIENT", "none", <<>>, <<>>, <<>>, <<>>)
        /\ budget = r
        /\ retries = r
        /\ attempts = 0
        /\ rate_limited = 0
        /\ waits = 0
        /\ slept = 0
        /\ clog = <<>>
        /\ cui = <<>>
        /\ last = Outcome("none", <<>>)
        /\ ret = <<>>
        /\ pc = "call"

NextClient ==
    \/ \E body \in Bodies : call_chatgpt_success(body)
    \/ call_chatgpt_rate_limit_retry
    \/ call_chatgpt_rate_limit_exhausted
    \/ call_chatgpt_openai_error
    \/ call_chatgpt_unexpected_error

SpecClient == InitClient /\ [][NextClient]_vars

\* ------------------------------------------------------ request builders
\* f"P{idx+1}"
PidNames == <<"P1", "P2", "P3", "P4">>

participant_id_of(i) == PidNames[i + 1]

\* generate_pets: the prompt carries the participant id and the transcript.
generate_pets(transcript_text, participant_id) ==
    Prompt("PET", participant_id, transcript_text, <<>>, <<>>, <<>>)

\* for pet in pets: pet['participant_id'] = participant_id; append(pet).
\* Item assignment on a non-dict element raises TypeError; the elements before
\* it stay tagged (they are tagged in place).
RECURSIVE tag_pets(_, _, _)
tag_pets(pets, participant_id, i) ==
    IF i > Len(pets) THEN [raised |-> FALSE, pets |-> pets, n |-> Len(pets)]
    ELSE IF pets[i].kind # "dict" THEN [raised |-> TRUE, pets |-> pets, n |-> i - 1]
    ELSE tag_pets([pets EXCEPT ![i].participant_id = participant_id],
                  participant_id, i + 1)

\* The loop of generate_gets over participant_pets[i..]: .get on a non-dict
\* raises AttributeError, iterating None raises TypeError.
RECURSIVE collect_pets(_, _, _)
collect_pets(pp, i, acc) ==
    IF i > Len(pp)
    THEN [raised |-> FALSE, participant_pets |-> pp, pets_across_participants |-> acc]
    ELSE IF pp[i].pets.top # "dict"
    THEN [raised |-> TRUE, participant_pets |-> pp, pets_across_participants |-> acc]
    ELSE LET v == dict_get(pp[i].pets, PetKey)
         IN  IF v.t # "list"
             THEN [raised |-> TRUE, participant_pets |-> pp,
                   pets_across_participants |-> acc]
             ELSE LET r == tag_pets(v.items, pp[i].participant_id, 1)
                      pp2 == IF pp[i].pets.key = PetKey
                             THEN [pp EXCEPT ![i].pets.items = r.pets]
                             ELSE pp
                      acc2 == acc \o SubSeq(r.pets, 1, r.n)
                  IN  IF r.raised
                      THEN [raised |-> TRUE, participant_pets |-> pp2,
                            pets_across_participants |-> acc2]
                      ELSE collect_pets(pp2, i + 1, acc2)

\* Tags copies: the caller's participant_pets stay as they were.
generate_gets_tagging_copies(pp) ==
    LET c == collect_pets(pp, 1, <<>>)
    IN  [raised |-> c.raised, participant_pets |-> pp,
         prompt |-> Prompt("GET", "none", <<>>, c.pets_across_participants, <<>>, <<>>)]

\* generate_gets up to its call of call_chatgpt.
generate_gets(pp) ==
    LET c == collect_pets(pp, 1, <<>>)
    IN  [raised |-> c.raised, participant_pets |-> c.participant_pets,
         prompt |-> Prompt("GET", "none", <<>>, c.pets_across_participants, <<>>, <<>>)]

\* stage4_write_up_pet: json.dumps(participant_pets) and all the transcripts.
stage4_write_up_pet(pp, all) == Prompt("WRITEUP", "none", <<>>, <<>>, pp, all)

\* Truth value of a JSON value (None and [] are falsy).
truthy(v) == v.t = "list" /\ Len(v.items) > 0

\* convert_analysis_to_markdown raises on pet.get / get.get of a non-dict
\* element of a non-empty list.
markdown_raises(a) ==
    \/ /\ truthy(a.personal_experiential_themes_writeup)
       /\ \E i \in 1..Len(a.personal_experiential_themes_writeup.items) :
            a.personal_experiential_themes_writeup.items[i].kind # "dict"
    \/ /\ truthy(a.group_experiential_themes)
       /\ \E i \in 1..Len(a.group_experiential_themes.items) :
            a.group_experiential_themes.items[i].kind # "dict"

\* The sections of the markdown; both branches of each if add text.
convert_analysis_to_markdown(a) ==
    << IF truthy(a.personal_experiential_themes_writeup)
       THEN "pets_writeup" ELSE "no_pets_writeup",
       IF truthy(a.group_experiential_themes) THEN "gets" ELSE "no_gets" >>

\* ------------------------------------------------- ipa_analysis_pipeline
Msg(level, what, who) == [level |-> level, what |-> what, who |-> who]

\* An uploaded file: readable (seek/read do not raise), utf8 (its bytes decode
\* as UTF-8), and the decoded text.
File(readable, utf8, text) == [readable |-> readable, utf8 |-> utf8, text |-> text]

Files ==
    { File(TRUE, TRUE, <<PROSE>>),
      File(TRUE, TRUE, <<>>),
      File(TRUE, TRUE, <<WS>>),
      File(TRUE, FALSE, <<PROSE>>),
      File(FALSE, TRUE, <<PROSE>>) }

RECURSIVE SeqsUpTo(_, _)
SeqsUpTo(S, n) ==
    IF n = 0 THEN { <<>> }
    ELSE LET shorter == SeqsUpTo(S, n - 1)
         IN  shorter \cup { Append(q, x) : q \in shorter, x \in S }

Init ==
    /\ transcripts \in (SeqsUpTo(Files, MaxTranscripts) \ { <<>> })
    /\ idx = 0
    /\ participant_ids = <<>>
    /\ all_transcripts = <<>>
    /\ participant_pets = <<>>
    /\ gets = NoDoc
    /\ write_up = NoDoc
    /\ analysis = NoAnalysis
    /\ rendered = FALSE
    /\ ui = <<>>
    /\ plog = <<>>
    /\ pet_returns = <<>>
    /\ sent = <<>>
    /\ pc = "start"
    /\ stage = "none"
    /\ prompt = Prompt("none", "none", <<>>, <<>>, <<>>, <<>>)
    /\ budget = 0
    /\ retries = 0
    /\ attempts = 0
    /\ rate_limited = 0
    /\ waits = 0
    /\ slept = 0
    /\ clog = <<>>
    /\ cui = <<>>
    /\ last = Outcome("none", <<>>)
    /\ ret = <<>>

\* The bytes decoded leniently (a fallback decoding): only an unreadable file
\* raises.
decode_fails_only_unreadable(f) == ~f.readable

\* transcript.seek(0); transcript.read().decode("utf-8") raises.
decode_fails(f) == ~f.readable \/ ~f.utf8

\* The emptiness test without its strip().
is_empty_transcript_unstripped(text) == text = <<>>

\* if not transcript_text.strip():
is_empty_transcript(text) == strip(text) = <<>>

\* The loop left after its first transcript.
after_loop_body_break(i, n) == "gets"

\* for idx, transcript in enumerate(transcripts): the next transcript, or the
\* code after the loop once the last one is done.
after_loop_body(i, n) == IF i + 1 < n THEN "start" ELSE "gets"

\* Loop body, lines 271-288: read and decode transcript idx, reject an empty
\* one, register the participant and call generate_pets.
ipa_read_transcript ==
    /\ pc = "start"
    /\ idx < Len(transcripts)
    /\ LET f == transcripts[idx + 1]
           participant_id == participant_id_of(idx)
       IN  IF decode_fails(f)
           THEN \* except Exception: st.error, logger.error, return
                /\ ui' = Append(ui, Msg("error", "read_transcript", participant_id))
                /\ plog' = Append(plog, Msg("error", "read_transcript", participant_id))
                /\ pc' = "aborted"
                /\ UNCHANGED <<participant_ids, all_transcripts, sent, call_vars>>
           ELSE IF is_empty_transcript(f.text)
           THEN \* st.error(... is empty.); return
                /\ ui' = Append(ui, Msg("error", "empty_transcript", participant_id))
                /\ pc' = "aborted"
                /\ UNCHANGED <<participant_ids, all_transcripts, plog, sent, call_vars>>
           ELSE /\ participant_ids' = Append(participant_ids, participant_id)
                /\ all_transcripts' =
                       Append(all_transcripts,
                              [participant_id |-> participant_id, text |-> f.text])
                /\ enter_call("PET", generate_pets(f.text, participant_id),
                              DefaultRetries)
                /\ UNCHANGED <<ui, plog, sent>>
    /\ UNCHANGED <<transcripts, idx, participant_pets, gets, write_up, analysis,
                   rendered, pet_returns>>

\* The loop body repeating generate_pets for the same transcript for as long
\* as the returned text does not parse.
ipa_after_pets_retrying ==
    /\ pc = "ret"
    /\ stage = "PET"
    /\ LET participant_id == participant_id_of(idx)
           pets == json_loads(ret)
       IN  IF ret # <<>> /\ ~pets.ok
           THEN /\ ui' = Append(ui, Msg("error", "PET_json", participant_id))
                /\ plog' = Append(plog, Msg("error", "PET_json", participant_id))
                /\ pc' = "start"
                /\ UNCHANGED <<participant_pets, pet_returns, idx>>
           ELSE /\ IF ret # <<>>
                   THEN /\ participant_pets' =
                               Append(participant_pets,
                                      [participant_id |-> participant_id,
                                       pets |-> pets.value])
                        /\ ui' = Append(ui, Msg("success", "PET", participant_id))
                   ELSE /\ ui' = Append(ui, Msg("error", "PET_failed", participant_id))
                        /\ participant_pets' = participant_pets
                /\ plog' = plog
                /\ pet_returns' =
                       Append(pet_returns,
                              [participant_id |-> participant_id, text |-> ret])
                /\ idx' = idx + 1
                /\ pc' = IF idx + 1 < Len(transcripts) THEN "start" ELSE "gets"
    /\ UNCHANGED <<transcripts, participant_ids, all_transcripts, gets, write_up,
                   analysis, rendered, sent, call_vars>>

\* Lines 289-300: the value generate_pets returned is parsed and kept, or the
\* failure is reported; then the loop goes on.
ipa_after_pets ==
    /\ pc = "ret"
    /\ stage = "PET"
    /\ LET participant_id == participant_id_of(idx)
           pets == json_loads(ret)
       IN  IF ret # <<>>
           THEN IF pets.ok
                THEN /\ participant_pets' =
                            Append(participant_pets,
                                   [participant_id |-> participant_id,
                                    pets |-> pets.value])
                     /\ ui' = Append(ui, Msg("success", "PET", participant_id))
                     /\ plog' = plog
                ELSE /\ ui' = Append(ui, Msg("error", "PET_json", participant_id))
                     /\ plog' = Append(plog, Msg("error", "PET_json", participant_id))
                     /\ participant_pets' = participant_pets
           ELSE /\ ui' = Append(ui, Msg("error", "PET_failed", participant_id))
                /\ UNCHANGED <<participant_pets, plog>>
    /\ pet_returns' =
           Append(pet_returns, [participant_id |-> participant_id_of(idx), text |-> ret])
    /\ idx' = idx + 1
    /\ pc' = after_loop_body(idx, Len(transcripts))
    /\ UNCHANGED <<transcripts, participant_ids, all_transcripts, gets, write_up,
                   analysis, rendered, sent, call_vars>>

\* Line 310: generate_gets(participant_pets) tags the pets in place and calls
\* call_chatgpt, unless building the list raises (nothing catches it).
ipa_generate_gets ==
    /\ pc = "gets"
    /\ LET g == generate_gets(participant_pets)
       IN  /\ participant_pets' = g.participant_pets
           /\ IF g.raised
              THEN /\ pc' = "raised"
                   /\ UNCHANGED call_vars
              ELSE enter_call("GET", g.prompt, DefaultRetries)
    /\ UNCHANGED <<transcripts, idx, participant_ids, all_transcripts, gets,
                   write_up, analysis, rendered, ui, plog, pet_returns, sent>>

\* Lines 311-327: the GET text is parsed (or replaced by {}), then
\* stage4_write_up_pet is called.
ipa_after_gets ==
    /\ pc = "ret"
    /\ stage = "GET"
    /\ LET parsed == json_loads(ret)
       IN  IF ret # <<>>
           THEN IF parsed.ok
                THEN /\ gets' = parsed.value
                     /\ ui' = Append(ui, Msg("success", "GET", "none"))
                     /\ plog' = plog
                ELSE /\ gets' = EmptyDict
                     /\ ui' = Append(ui, Msg("error", "GET_json", "none"))
                     /\ plog' = Append(plog, Msg("error", "GET_json", "none"))
           ELSE /\ gets' = EmptyDict
                /\ UNCHANGED <<ui, plog>>
    /\ enter_call("WRITEUP", stage4_write_up_pet(participant_pets, all_transcripts),
                  DefaultRetries)
    /\ UNCHANGED <<transcripts, idx, participant_ids, all_transcripts,
                   participant_pets, write_up, analysis, rendered, pet_returns, sent>>

\* Lines 328-354: the write-up text is parsed (or replaced by {}), the
\* analysis is assembled (gets.get, write_up.get) and rendered.
ipa_after_write_up ==
    /\ pc = "ret"
    /\ stage = "WRITEUP"
    /\ LET parsed == json_loads(ret)
           w == IF ret # <<>> /\ parsed.ok THEN parsed.value ELSE EmptyDict
           a == [participants |-> participant_pets,
                 group_experiential_themes |-> dict_get(gets, GetKey),
                 personal_experiential_themes_writeup |-> dict_get(w, PetKey)]
       IN  /\ write_up' = w
           /\ IF ret # <<>>
              THEN IF parsed.ok
                   THEN /\ ui' = Append(ui, Msg("success", "WRITEUP", "none"))
                        /\ plog' = plog
                   ELSE /\ ui' = Append(ui, Msg("error", "WRITEUP_json", "none"))
                        /\ plog' = Append(plog, Msg("error", "WRITEUP_json", "none"))
              ELSE UNCHANGED <<ui, plog>>
           /\ IF gets.top # "dict" \/ w.top # "dict"
              THEN \* AttributeError: no .get on a list / str
                   /\ pc' = "raised"
                   /\ UNCHANGED <<analysis, rendered>>
              ELSE /\ analysis' = a
                   /\ IF markdown_raises(a)
                      THEN /\ pc' = "raised"
                           /\ rendered' = FALSE
                      ELSE IF convert_analysis_to_markdown(a) = <<>>
                      THEN /\ pc' = "aborted"
                           /\ rendered' = FALSE
                      ELSE /\ pc' = "done"
                           /\ rendered' = TRUE
    /\ UNCHANGED <<transcripts, idx, participant_ids, all_transcripts,
                   participant_pets, gets, pet_returns, sent, call_vars>>

Next ==
    \/ ipa_read_transcript
    \/ ipa_after_pets
    \/ ipa_generate_gets
    \/ ipa_after_gets
    \/ ipa_after_write_up
    \/ \E body \in Bodies : call_chatgpt_success(body)
    \/ call_chatgpt_rate_limit_retry
    \/ call_chatgpt_rate_limit_exhausted
    \/ call_chatgpt_openai_error
    \/ call_chatgpt_unexpected_error

Spec == Init /\ [][Next]_vars

\* =================================================================== claims
\* ------------------------------------------------------ call_chatgpt alone
\* The call is over and every one of its attempts was rate-limited.
AllRateLimited == pc = "ret" /\ rate_limited = attempts

\* C4: with retry budget r and a rate-limit signal on every attempt, the call
\* issues exactly r+1 requests and performs exactly r waits of 60 seconds, one
\* before each retry and none after the last attempt, then returns the failure
\* value; no request is ever issued beyond the r+1.
C4_RateLimitExhaustsBudget ==
    /\ attempts <= budget + 1
    /\ (pc = "call" => waits = attempts)
    /\ (AllRateLimited =>
            /\ attempts = budget + 1
            /\ waits = budget
            /\ slept = 60 * budget
            /\ last.kind = "rate"
            /\ ret = <<>>)

C4_Witness == AllRateLimited /\ budget = 2 /\ attempts = 3 /\ waits = 2

\* C5: when the first k attempts (0 <= k <= r) are rate-limited and attempt k+1
\* succeeds with non-empty text, the call returns that text after exactly k+1
\* requests and k waits; rate limits alone end a call only after r+1 signals.
C5_SuccessAfterRateLimits ==
    /\ (pc = "ret" /\ last.kind = "ok" /\ ret # <<>> =>
            /\ ret = strip(last.body)
            /\ attempts = rate_limited + 1
            /\ waits = rate_limited
            /\ slept = 60 * rate_limited
            /\ rate_limited <= budget)
    /\ (pc = "ret" /\ last.kind = "rate" => rate_limited = budget + 1)

C5_Witness ==
    /\ pc = "ret"
    /\ last.kind = "ok"
    /\ ret # <<>>
    /\ budget = 2
    /\ rate_limited = 2
    /\ waits = 2

\* C6: a provider error other than a rate limit ends the call at once: the
\* call returns the failure value without a wait for that error, and no
\* request is issued after it, whatever budget remains and however many
\* earlier attempts were rate-limited.
C6_ProviderErrorEndsCall ==
    /\ (pc = "call" => last.kind \in {"none", "rate"})
    /\ (last.kind \in {"openai", "unexpected"} =>
            /\ pc # "call"
            /\ ret = <<>>
            /\ attempts = rate_limited + 1
            /\ waits = rate_limited
            /\ retries = budget - rate_limited)

C6_Witness ==
    /\ pc = "ret"
    /\ last.kind = "openai"
    /\ rate_limited = 1
    /\ retries = 2
    /\ attempts = 2

\* C10 (as claimed): a successful request whose body is empty or whitespace
\* only never returns the value the hard failures return ("").
C10_EmptyResponseDistinct ==
    (pc = "ret" /\ last.kind = "ok" /\ strip(last.body) = <<>>) => ret # failure_value

\* ------------------------------------------------------------ the pipeline
\* The loop over the transcripts ran to its end (no ingestion abort).
LoopDone == idx = Len(transcripts) /\ pc \notin {"start", "aborted"}

\* generate_gets has been entered.
PastGets == LoopDone /\ pc # "gets"

Participants == 1..Len(pet_returns)

\* F: the completion was empty or its text is not JSON.
PetFailed(k) == pet_returns[k].text = <<>> \/ ~json_loads(pet_returns[k].text).ok

PetDoc(k) == json_loads(pet_returns[k].text).value

\* The theme records participant k's response carries.
OwnPets(k) ==
    IF PetDoc(k).top = "dict" /\ PetDoc(k).key = PetKey /\ PetDoc(k).val = "list"
    THEN PetDoc(k).items
    ELSE <<>>

Tagged(items, pid) == [i \in 1..Len(items) |-> [items[i] EXCEPT !.participant_id = pid]]

RECURSIVE SurvivorPets(_)
SurvivorPets(k) ==
    IF k = 0 THEN <<>>
    ELSE SurvivorPets(k - 1)
         \o (IF PetFailed(k) THEN <<>> ELSE Tagged(OwnPets(k), PidNames[k]))

Reported(level, whats, pid) ==
    \E i \in 1..Len(ui) : ui[i].level = level /\ ui[i].what \in whats /\ ui[i].who = pid

Issued(stages) == { i \in 1..Len(sent) : sent[i].stage \in stages }

\* The request mentions participant pid: a theme, a participant_pets entry or
\* a transcript of that participant.
Carries(p, pid) ==
    \/ \E i \in 1..Len(p.pets) : p.pets[i].participant_id = pid
    \/ \E i \in 1..Len(p.participant_pets) : p.participant_pets[i].participant_id = pid
    \/ \E i \in 1..Len(p.transcripts) : p.transcripts[i].participant_id = pid
    \/ p.participant_id = pid

\* C1 (as claimed): once the loop over n readable, non-empty transcripts is
\* over, every participant had its PET request, every participant of F has an
\* error report, and the GET request is built, from exactly the PETs of the
\* participants not in F, in upload order, tagged P(i+1).
C1_GetBuiltFromSurvivors ==
    PastGets =>
        /\ Len(pet_returns) = Len(transcripts)
        /\ \A k \in Participants :
              /\ \E i \in Issued({"PET"}) : sent[i].participant_id = PidNames[k]
              /\ PetFailed(k) => Reported("error", {"PET_failed", "PET_json"}, PidNames[k])
        /\ stage \in {"GET", "WRITEUP"}
        /\ (stage = "GET" => prompt.pets = SurvivorPets(Len(pet_returns)))
        /\ \A i \in Issued({"GET"}) : sent[i].pets = SurvivorPets(Len(pet_returns))

\* What does hold of C1: a GET request, when one is built, is built from
\* exactly the tagged PETs of the participants not in F, in upload order.
GetRequestFromSurvivors ==
    /\ (stage = "GET" => prompt.pets = SurvivorPets(Len(pet_returns)))
    /\ \A i \in Issued({"GET"}) : sent[i].pets = SurvivorPets(Len(pet_returns))

\* C2 (as claimed): with no successful PET result after the loop, the run
\* reports InsufficientData and sends neither the GET nor the write-up request.
C2_NoRequestWithoutPets ==
    (LoopDone /\ participant_pets = <<>>) =>
        /\ Issued({"GET", "WRITEUP"}) = {}
        /\ (pc \in {"done", "raised"} => Reported("error", {"InsufficientData"}, "none"))

\* C3 (as claimed): no GET or write-up request carries the transcript text or
\* the themes of a participant whose analysis has failed.
C3_NoRequestForFailed ==
    \A k \in Participants :
        PetFailed(k) =>
            \A i \in Issued({"GET", "WRITEUP"}) : ~Carries(sent[i], PidNames[k])

\* C7 (as claimed): whatever the model answers, no error escapes the pipeline
\* as an uncaught exception.
C7_NoUncaughtException == pc # "raised"

\* A parsed response that lacks a required key of the PET shape.
LacksRequiredKey(d) ==
    /\ d.top = "dict"
    /\ \/ d.key # PetKey
       \/ /\ d.val = "list"
          /\ \E i \in 1..Len(d.items) : d.items[i].kind = "dict" /\ ~d.items[i].complete

InParticipantPets(pid) ==
    \E i \in 1..Len(participant_pets) : participant_pets[i].participant_id = pid

\* C8 (as claimed): a response that parses but lacks a required key fails the
\* participant like an unparseable one: not kept, not reported as a success.
C8_SchemaMismatchFails ==
    \A k \in Participants :
        (~PetFailed(k) /\ LacksRequiredKey(PetDoc(k))) =>
            /\ ~InParticipantPets(PidNames[k])
            /\ ~Reported("success", {"PET"}, PidNames[k])
            /\ Reported("error", {"PET_failed", "PET_json"}, PidNames[k])

\* C9 (as claimed): a valid response with zero themes fails the participant:
\* it is not kept and no GET or write-up request carries an entry for it.
C9_EmptyResultFails ==
    \A k \in Participants :
        (/\ ~PetFailed(k)
         /\ PetDoc(k).top = "dict"
         /\ PetDoc(k).key = PetKey
         /\ PetDoc(k).val = "list"
         /\ PetDoc(k).items = <<>>) =>
            /\ ~InParticipantPets(PidNames[k])
            /\ \A i \in Issued({"GET", "WRITEUP"}) :
                  /\ \A j \in 1..Len(sent[i].pets) :
                        sent[i].pets[j].participant_id # PidNames[k]
                  /\ \A j \in 1..Len(sent[i].participant_pets) :
                        sent[i].participant_pets[j].participant_id # PidNames[k]

\* The text is one JSON document with prose before and/or after it.
ProseWrapped(text) ==
    /\ Cardinality({ i \in 1..Len(text) : text[i].seg = "doc" }) = 1
    /\ \E i \in 1..Len(text) : text[i].seg = "prose"
    /\ \A i \in 1..Len(text) : text[i].seg \in {"doc", "prose", "ws"}

\* The clean JSON inside such a text.
CleanJson(text) == SelectSeq(text, LAMBDA x : x.seg = "doc")

\* C11 (as claimed): a response that is valid JSON with prose around it is
\* accepted and yields the value of the clean JSON; the participant (or the
\* write-up stage) does not fail on it.
C11_ProseAroundJsonAccepted ==
    /\ \A k \in Participants :
          ProseWrapped(pet_returns[k].text) =>
              /\ ~Reported("error", {"PET_failed", "PET_json"}, PidNames[k])
              /\ \E i \in 1..Len(participant_pets) :
                    /\ participant_pets[i].participant_id = PidNames[k]
                    /\ participant_pets[i].pets.top =
                           json_loads(CleanJson(pet_returns[k].text)).value.top
    /\ (stage = "WRITEUP" /\ pc \in {"done", "raised"} /\ ProseWrapped(ret)) =>
            /\ write_up = json_loads(CleanJson(ret)).value
            /\ ~Reported("error", {"WRITEUP_json"}, "none")

\* The file decodes, and to nothing but whitespace (or nothing at all).
Blank(f) ==
    /\ f.readable
    /\ f.utf8
    /\ \A i \in 1..Len(f.text) : f.text[i].seg = "ws"

\* C12: a transcript whose decoded text is empty or whitespace-only never
\* enters the pipeline: no request, issued or about to be, carries it or its
\* participant, and the participant is never registered nor in participant_pets.
C12_BlankTranscriptRejected ==
    \A i \in 1..Len(transcripts) :
        Blank(transcripts[i]) =>
            /\ \A j \in 1..Len(sent) : ~Carries(sent[j], PidNames[i])
            /\ (pc = "call" => ~Carries(prompt, PidNames[i]))
            /\ ~InParticipantPets(PidNames[i])
            /\ \A j \in 1..Len(participant_ids) : participant_ids[j] # PidNames[i]
            /\ \A j \in 1..Len(all_transcripts) :
                  all_transcripts[j].participant_id # PidNames[i]
            /\ idx < i

C12_Witness ==
    /\ Len(transcripts) = 2
    /\ transcripts[2] = File(TRUE, TRUE, <<WS>>)
    /\ pc = "aborted"
    /\ idx = 1
    /\ Len(sent) = 1
    /\ Reported("error", {"empty_transcript"}, "P2")

\* The file can be read but its bytes are not valid UTF-8.
NonUtf8(f) == f.readable /\ ~f.utf8

\* C13 (as claimed): a transcript that is not valid UTF-8 is no failure: no
\* error is reported for it and the run does not end at it (it is decoded as
\* ISO-8859-1 and analysed).
C13_Latin1Fallback ==
    \A i \in 1..Len(transcripts) :
        NonUtf8(transcripts[i]) =>
            /\ ~Reported("error", {"read_transcript"}, PidNames[i])
            /\ (idx = i - 1 => pc # "aborted")

\* Participant k's per-transcript analysis has ended, in success or failure.
PetOutcomeReported(k) ==
    \/ Reported("success", {"PET"}, PidNames[k])
    \/ Reported("error", {"PET_failed", "PET_json"}, PidNames[k])

\* C14: generate_gets sends its request at most once in a run (call_chatgpt
\* may repeat that one request after rate limits), only when every
\* participant's PET analysis has ended in success or failure, and no PET
\* request follows it.
C14_GetOnceAfterAllParticipants ==
    /\ Cardinality(Issued({"GET"})) <= 1
    /\ (stage = "GET" \/ Issued({"GET"}) # {}) =>
            /\ idx = Len(transcripts)
            /\ Len(pet_returns) = Len(transcripts)
            /\ \A k \in 1..Len(transcripts) : PetOutcomeReported(k)
    /\ \A i \in 1..Len(sent) : \A j \in 1..Len(sent) :
            (i < j /\ sent[i].stage = "GET") => sent[j].stage # "PET"
    /\ (stage = "PET" /\ pc = "call") => Issued({"GET"}) = {}

C14_Witness ==
    /\ Len(transcripts) = 2
    /\ Issued({"GET"}) # {}
    /\ PetFailed(1)
    /\ ~PetFailed(2)

\* The requests generate_pets sent for participant pid.
PetCalls(pid) == { i \in Issued({"PET"}) : sent[i].participant_id = pid }

\* C15: the pipeline calls generate_pets at most once per participant (the
\* code never takes the one retry it would be allowed), generate_gets at most
\* once and stage4_write_up_pet at most once: at most n+2 top-level completion
\* calls in a run over n transcripts, each within the client's retry budget.
C15_BoundedTopLevelCalls ==
    /\ \A k \in 1..Len(transcripts) : Cardinality(PetCalls(PidNames[k])) <= 1
    /\ Cardinality(Issued({"GET"})) <= 1
    /\ Cardinality(Issued({"WRITEUP"})) <= 1
    /\ Len(sent) <= Len(transcripts) + 2
    /\ (stage # "none" => budget = 3 /\ attempts <= budget + 1)

C15_Witness ==
    /\ pc = "done"
    /\ Len(transcripts) = 2
    /\ Len(sent) = 4
    /\ PetFailed(1)
    /\ attempts = 4

\* The logger level the code uses for an attempt that ended as `kind`.
LevelsFor(kind) ==
    IF kind = "ok" THEN {"info"}
    ELSE IF kind = "rate" THEN {"warning", "error"}
    ELSE {"error"}

\* C16: every attempt of call_chatgpt, whatever its outcome, has written a
\* logger record by the time the call returns or the next attempt starts.
C16_EveryAttemptLogged ==
    /\ Len(clog) >= attempts
    /\ (attempts > 0 => clog[Len(clog)] \in LevelsFor(last.kind))

C16_Witness ==
    /\ pc = "ret"
    /\ budget = 2
    /\ attempts = 3
    /\ last.kind = "rate"
    /\ clog = <<"warning", "warning", "error">>

\* An error of one of the kinds `whats` was shown to the user or logged.
ErrorNaming(whats) ==
    \/ \E i \in 1..Len(ui) : ui[i].level = "error" /\ ui[i].what \in whats
    \/ \E i \in 1..Len(plog) : plog[i].level = "error" /\ plog[i].what \in whats

\* C17 (as claimed): whenever the completion of the PET, GET or write-up stage
\* gave no usable content, an error naming that stage has been shown or logged
\* by the time the run goes on with the default value.
C17_NoSilentFailure ==
    /\ \A k \in Participants :
          PetFailed(k) => Reported("error", {"PET_failed", "PET_json"}, PidNames[k])
    /\ (stage = "WRITEUP" /\ ~Reported("success", {"GET"}, "none")) =>
            ErrorNaming({"GET_failed", "GET_json"})
    /\ (stage = "WRITEUP" /\ pc \in {"done", "raised"}
            /\ ~Reported("success", {"WRITEUP"}, "none")) =>
            ErrorNaming({"WRITEUP_failed", "WRITEUP_json"})

\* Transcript f cannot be ingested: reading or decoding it raises, or its text
\* is empty or whitespace-only.
IngestionFails(f) == ~f.readable \/ ~f.utf8 \/ Blank(f)

FirstFailing(i) ==
    /\ IngestionFails(transcripts[i])
    /\ \A j \in 1..(i - 1) : ~IngestionFails(transcripts[j])

\* C18: if transcript i cannot be ingested, the run never gets past it: the
\* loop stops at i, no request is issued (or prepared) for i or any later
\* transcript, none for the GET and write-up stages, and no analysis is built
\* or rendered; when the run has returned at the first such i, the PET requests
\* of the i-1 transcripts before it have all been issued and answered.
C18_IngestionFailureAbortsBatch ==
    \A i \in 1..Len(transcripts) :
        /\ IngestionFails(transcripts[i]) =>
            /\ idx <= i - 1
            /\ (idx = i - 1 => pc \in {"start", "aborted"})
            /\ pc \notin {"gets", "done", "raised"}
            /\ stage \notin {"GET", "WRITEUP"}
            /\ Issued({"GET", "WRITEUP"}) = {}
            /\ \A j \in i..Len(transcripts) :
                  /\ \A k \in 1..Len(sent) : ~Carries(sent[k], PidNames[j])
                  /\ ~(pc \in {"call", "ret"} /\ Carries(prompt, PidNames[j]))
                  /\ ~InParticipantPets(PidNames[j])
            /\ analysis = NoAnalysis
            /\ ~rendered
        /\ (FirstFailing(i) /\ pc = "aborted") =>
            /\ idx = i - 1
            /\ Len(pet_returns) = i - 1
            /\ \A j \in 1..(i - 1) :
                  \E k \in 1..Len(sent) :
                      sent[k].stage = "PET" /\ sent[k].participant_id = PidNames[j]

\* The second transcript is not valid UTF-8 and the run has returned at it,
\* after the first participant's PET request was issued and answered.
C18_Witness ==
    /\ Len(transcripts) = 2
    /\ NonUtf8(transcripts[2])
    /\ pc = "aborted"
    /\ idx = 1
    /\ Len(sent) = 1
    /\ Len(pet_returns) = 1

\* generate_gets has returned normally.
GetsReturned == stage \in {"GET", "WRITEUP"}

\* The document with every theme record under personal_experiential_themes
\* given the participant_id pid.
TaggedDoc(d, pid) ==
    IF d.key = PetKey /\ d.val = "list" THEN [d EXCEPT !.items = Tagged(d.items, pid)]
    ELSE d

\* The entries the loop appended, in upload order, with their themes tagged.
RECURSIVE TaggedEntries(_)
TaggedEntries(k) ==
    IF k = 0 THEN <<>>
    ELSE TaggedEntries(k - 1)
         \o (IF PetFailed(k) THEN <<>>
             ELSE <<[participant_id |-> PidNames[k],
                     pets |-> TaggedDoc(PetDoc(k), PidNames[k])]>>)

\* C19: once generate_gets has returned, every theme record under
\* participant_pets[i].pets.personal_experiential_themes carries the
\* participant_id of its entry, the list is otherwise what the loop built
\* (same length, order, ids and documents), and the write-up request and the
\* final analysis are given this tagged list.
C19_GenerateGetsTagsInPlace ==
    GetsReturned =>
        /\ \A i \in 1..Len(participant_pets) :
              LET v == dict_get(participant_pets[i].pets, PetKey)
              IN  \A m \in 1..Len(v.items) :
                      v.items[m].participant_id = participant_pets[i].participant_id
        /\ participant_pets = TaggedEntries(Len(pet_returns))
        /\ (stage = "WRITEUP" =>
              /\ prompt.participant_pets = participant_pets
              /\ \A k \in Issued({"WRITEUP"}) :
                    sent[k].participant_pets = participant_pets)
        /\ (pc = "done" => analysis.participants = participant_pets)

\* Two participants with one and two themes, tagged P1 and P2, in the write-up
\* request that was sent and in the analysis that was rendered.
C19_Witness ==
    /\ pc = "done"
    /\ Len(participant_pets) = 2
    /\ Len(participant_pets[1].pets.items) = 1
    /\ Len(participant_pets[2].pets.items) = 2
    /\ participant_pets[1].pets.items[1].participant_id = "P1"
    /\ participant_pets[2].pets.items[2].participant_id = "P2"
    /\ Issued({"WRITEUP"}) # {}
    /\ analysis.participants = participant_pets

====
